---------------------------- MODULE Spec2Model ----------------------------
(***************************************************************************)
(* Reservation ledger of consonant-engine: the three Redis Lua scripts     *)
(* (check_and_reserve, deduct_grains, finalize_request) as embedded in     *)
(* internal/ledger/ledger.go, the ledger methods that run them and feed    *)
(* the asynchronous write queue, and the expiry of request hashes; the      *)
(* worker's writes to PostgreSQL (customers and transactions tables) and   *)
(* the Syncer that copies durable balances into Redis.                     *)
(*                                                                         *)
(* Redis executes one script at a time, so the hot-store effect of a       *)
(* ledger call is one atomic step; concurrent callers are the              *)
(* interleavings of these steps.  A missing balance or reserved key reads  *)
(* as 0 in every script (tonumber(GET or '0'), INCRBY, DECRBY), so both    *)
(* counters are plain integers.  Timestamps, metadata, estimated_grains,   *)
(* actual_cost_grains and refunded_grains of a request hash are written    *)
(* but never read by any script and are left out of the record; of         *)
(* finalized_at only "set or not" is kept.  Time is not measured: a        *)
(* request hash may expire at any moment (Expire).                         *)
(*                                                                         *)
(* The worker pool is modelled twice: as one step per queued write         *)
(* (asyncWriteWorker, whose argument says whether any attempt succeeds),   *)
(* and attempt by attempt together with Ledger.Close (workerReceive,       *)
(* workerAttempt, workerStop, Close, CloseReturn) in SpecWorker.  The      *)
(* validation and grain arithmetic of the BalanceService RPC methods       *)
(* precede the ledger calls in SpecService.                                *)
(***************************************************************************)
EXTENDS Integers, Sequences, FiniteSets, TLC

VARIABLES
    balance,      \* customer:balance:{customer_id}
    reserved,     \* customer:reserved:{customer_id}
    requests,     \* request:{request_id} hashes
    writeQueue,   \* Ledger.writeQueue
    lastResult,   \* what the most recent ledger or syncer call returned
    keys,         \* which balance and reserved keys exist in Redis
    bootBalance,  \* :balance:{customer_id}, the key InitializeRedis writes
    pgBalance,    \* customers.current_balance_grains
    pgTransactions, \* rows of the transactions table, oldest first
    pgRequests,   \* status of each request id's row of the requests table
    audit,        \* history: queued writes lost, actual cost finalized,
                  \* (balance, reserved) pairs the hot store has held
    pipe,         \* GetBalance's pipeline while its two GETs are under way
    workers,      \* the asyncWriteWorker goroutines: loop position and op
    shutdown      \* how far Ledger.Close has got

vars == <<balance, reserved, requests, writeQueue, lastResult,
          keys, bootBalance, pgBalance, pgTransactions, pgRequests, audit,
          pipe, workers, shutdown>>

(* ------------------------------ bounds --------------------------------- *)

\* largest seeded balance, and cap on a balance grown by refunds
MaxBalance == 2
\* largest reserved / deducted grain amount a call passes
MaxGrains == 1
\* largest actual cost a Finalize passes
MaxCost == 2
\* cap on a request's consumed_grains
MaxConsumed == 2
\* capacity of the write queue
QueueCap == 1
\* cap on the number of rows of the transactions table
MaxTx == 3
\* cap on the actual cost finalized for one customer
MaxCharged == 3
\* number of asyncWriteWorker goroutines (10 in NewLedger)
NumWorkers == 2

Customers == {"c1"}
RequestIds == {"r1", "r2"}

(* --------------------------- request records --------------------------- *)

NoRecord == [status |-> "absent"]

\* statuses the service hands to Finalize
FinalStatuses == {"completed", "killed", "failed", "timeout"}
\* statuses of a request still in flight
InFlightStatuses == {"preflight_approved", "streaming"}

\* EXISTS request:{id}
RequestExists(id) == requests[id] # NoRecord

\* "customer:balance:%s" and "customer:reserved:%s"
balanceKey(c) == <<"customer:balance", c>>
reservedKey(c) == <<"customer:reserved", c>>
\* value of a key that does not exist (no stored balance is negative)
Nil == -1

\* the variables of the durable store
durable == <<pgBalance, pgTransactions, pgRequests>>

\* the variables of the worker pool and of Close
workerPool == <<workers, shutdown>>

\* no GetBalance pipeline under way
NoPipe == [sent |-> FALSE, customer |-> "", bal |-> 0]

NoResult ==
    [op |-> "none", customer |-> "", id |-> "", arg |-> 0,
     ok |-> 0, val |-> 0, code |-> "", bal |-> 0, res |-> 0, fault |-> ""]

(* ------------------------------- scripts ------------------------------- *)

reserveRejectionIgnoresReserved(bal, res, needed, exists) ==
    IF exists THEN "REQUEST_EXISTS"
    ELSE IF bal < needed THEN "INSUFFICIENT_BALANCE"
    ELSE ""

reserveRejectionNoExistsCheck(bal, res, needed, exists) ==
    IF bal - res < needed THEN "INSUFFICIENT_BALANCE" ELSE ""

\* check_and_reserve: the rejection reason, "" when the request is admitted
reserveRejection(bal, res, needed, exists) ==
    IF exists THEN "REQUEST_EXISTS"
    ELSE IF bal - res < needed THEN "INSUFFICIENT_BALANCE"
    ELSE ""

rejectionReportAvailable(bal, res) == bal - res

\* check_and_reserve: the second element of a rejection, {0, balance, reason}
rejectionReport(bal, res) == bal

newRequestRecordPrecharged(c, needed) ==
    [status |-> "streaming", customer_id |-> c,
     reserved_grains |-> needed, consumed_grains |-> needed,
     finalized_at |-> 0, integrity_issue |-> ""]

\* check_and_reserve: HSET of the request hash
newRequestRecord(c, needed) ==
    [status |-> "preflight_approved", customer_id |-> c,
     reserved_grains |-> needed, consumed_grains |-> 0,
     finalized_at |-> 0, integrity_issue |-> ""]

deductErrorNoKill(bal, amount, exists) ==
    IF ~exists THEN "REQUEST_NOT_FOUND"
    ELSE IF bal - amount < 0 THEN "BALANCE_NEGATIVE"
    ELSE ""

deductErrorNegativeFirst(bal, amount, exists) ==
    IF ~exists THEN "REQUEST_NOT_FOUND"
    ELSE IF bal - amount < 0 THEN "BALANCE_NEGATIVE"
    ELSE IF bal < amount THEN "INSUFFICIENT_BALANCE"
    ELSE ""

\* deduct_grains: the error code, "" when the deduction goes through
deductError(bal, amount, exists) ==
    IF ~exists THEN "REQUEST_NOT_FOUND"
    ELSE IF bal < amount THEN "INSUFFICIENT_BALANCE"
    ELSE IF bal - amount < 0 THEN "BALANCE_NEGATIVE"
    ELSE ""

deductedOverwritesConsumed(bal, consumed, amount) ==
    [balance |-> bal - amount, consumed |-> amount]

\* deduct_grains: DECRBY of the balance and HINCRBY of consumed_grains
deducted(bal, consumed, amount) ==
    [balance |-> bal - amount, consumed |-> consumed + amount]

\* finalize_request: the idempotency check on the stored status
alreadyFinalized(status) == status \in {"completed", "killed", "failed"}

reconcileNoClamp(bal, consumed, actual) ==
    [balance |-> bal + consumed - actual, refund |-> consumed - actual,
     shortfall |-> FALSE]

reconcileDoubleCharge(bal, consumed, actual) ==
    [balance |-> bal - actual, refund |-> -actual, shortfall |-> FALSE]

reconcileNoRefund(bal, consumed, actual) ==
    IF actual > consumed
    THEN IF bal >= actual - consumed
         THEN [balance |-> bal - (actual - consumed),
               refund |-> -(actual - consumed), shortfall |-> FALSE]
         ELSE [balance |-> 0, refund |-> -bal, shortfall |-> TRUE]
    ELSE [balance |-> bal, refund |-> 0, shortfall |-> FALSE]

reconcileChargesConsumed(bal, consumed, actual) ==
    IF actual > consumed /\ bal < actual - consumed
    THEN [balance |-> 0, refund |-> -consumed, shortfall |-> TRUE]
    ELSE [balance |-> bal + consumed - actual, refund |-> consumed - actual,
          shortfall |-> FALSE]

\* finalize_request: reconciliation of consumed against actual cost;
\* gives the new balance, the refund and whether the shortfall flag is set
reconcile(bal, consumed, actual) ==
    IF consumed > actual
    THEN [balance |-> bal + (consumed - actual),
          refund |-> consumed - actual, shortfall |-> FALSE]
    ELSE IF actual > consumed
    THEN IF bal >= actual - consumed
         THEN [balance |-> bal - (actual - consumed),
               refund |-> -(actual - consumed), shortfall |-> FALSE]
         ELSE [balance |-> 0, refund |-> -bal, shortfall |-> TRUE]
    ELSE [balance |-> bal, refund |-> 0, shortfall |-> FALSE]

releaseNoClamp(current_reserved, res) ==
    [reserved |-> current_reserved - res, underflow |-> FALSE]

releaseNothing(current_reserved, res) ==
    [reserved |-> current_reserved, underflow |-> FALSE]

releaseEverything(current_reserved, res) ==
    [reserved |-> 0, underflow |-> current_reserved < res]

\* finalize_request: release of the reservation;
\* gives the new reserved counter and whether the underflow flag is set
release(current_reserved, res) ==
    IF current_reserved >= res
    THEN [reserved |-> current_reserved - res, underflow |-> FALSE]
    ELSE [reserved |-> 0, underflow |-> TRUE]

\* finalize_request: the integrity_issue field after both HSETs
\* (the underflow HSET comes after the shortfall HSET)
integrityIssue(old, shortfall, underflow) ==
    IF underflow THEN "reservation_underflow"
    ELSE IF shortfall THEN "undercharge_shortfall"
    ELSE old

(* ----------------------------- write queue ----------------------------- *)

\* writeOp{opType, data}: of the request data, what the worker writes
writeOp(opType, c, id, grains) ==
    [opType |-> opType, customer_id |-> c, request_id |-> id,
     grains |-> grains]

enqueueUnbounded(q, op) == Append(q, op)

\* select { case l.writeQueue <- op: default: } -- drop when full
enqueue(q, op) == IF Len(q) < QueueCap THEN Append(q, op) ELSE q

(* ----------------------------- worker pool ----------------------------- *)

\* maxRetries := 5
maxRetries == 5

Workers == 1..NumWorkers

NoOp == writeOp("", "", "", 0)

\* a worker blocked in "for op := range l.writeQueue"; gaveUp tells whether
\* it has logged "async write failed after all retries" before
IdleWorker == [state |-> "idle", op |-> NoOp, attempt |-> 0, gaveUp |-> FALSE]

attemptOutcomeNoLimit(attempt, written) ==
    IF written THEN "done" ELSE "retry"

\* the retry loop after attempt number attempt: break on err == nil, sleep
\* and go round again while attempt < maxRetries, else log and fall out
attemptOutcome(attempt, written) ==
    IF written THEN "done"
    ELSE IF attempt < maxRetries THEN "retry"
    ELSE "abandoned"

wgDoneWithoutWait(ws) == TRUE

\* l.wg.Wait(): every worker has run its deferred l.wg.Done()
wgDone(ws) == \A w \in Workers : ws[w].state = "stopped"

(* ---------------------------- durable store ---------------------------- *)

\* a row of the transactions table
transaction(c, amount, type, ref) ==
    [customer_id |-> c, amount_grains |-> amount,
     transaction_type |-> type, reference_id |-> ref]

RECURSIVE seedRows(_, _)
seedRows(bal, S) ==
    IF S = {} THEN <<>>
    ELSE LET c == CHOOSE x \in S : TRUE
         IN  <<transaction(c, bal[c], "admin_adjustment", "")>>
                \o seedRows(bal, S \ {c})

\* the seeded rows: one admin_adjustment per customer for its balance
seedTransactions(bal) == seedRows(bal, Customers)

\* writePreflightToDB: the INSERT names no model, and requests.model is
\* NOT NULL without a default, so the statement fails on every attempt
writePreflightToDB(op) == FALSE

\* writeFinalizationToDB: the UPDATE of requests matches no row (no
\* preflight row was ever inserted) and the INSERT appends one ai_usage row
\* of -ActualCostGrains; customers.current_balance_grains is not written
writeFinalizationToDB(txs, op) ==
    Append(txs, transaction(op.customer_id, -op.grains, "ai_usage",
                            op.request_id))

\* writePreflightToDB, were the INSERT to succeed: the row of the request
\* with status preflight_approved
insertRequest(rows, op) ==
    [rows EXCEPT ![op.request_id] = "preflight_approved"]

\* writeFinalizationToDB: UPDATE requests SET status = ... WHERE request_id
\* = ...; a statement that matches no row changes nothing and is no error.
\* Of the status written only that it is terminal is kept.
updateRequest(rows, op) ==
    [rows EXCEPT ![op.request_id] = IF @ = "absent" THEN @ ELSE "terminal"]

\* the requests table after a write that went through
writtenRequests(rows, op) ==
    IF op.opType = "preflight" THEN insertRequest(rows, op)
    ELSE updateRequest(rows, op)

(* ------------------------------- ledger -------------------------------- *)

availableBalanceSum(bal, res) == bal + res

\* GetBalance: available = balance - reserved
availableBalance(bal, res) == bal - res

(* ------------------------------- actions ------------------------------- *)

\* a running deployment: the bootstrap and a sync have run and part of the
\* synced balance may have been spent by requests whose records are gone
Init ==
    /\ balance \in [Customers -> 0..MaxBalance]
    /\ reserved = [c \in Customers |-> 0]
    /\ requests = [id \in RequestIds |-> NoRecord]
    /\ writeQueue = <<>>
    /\ lastResult = NoResult
    /\ keys = {balanceKey(c) : c \in Customers}
                \cup {reservedKey(c) : c \in Customers}
    /\ pgBalance = [c \in Customers |-> MaxBalance]
    /\ bootBalance = pgBalance
    /\ pgTransactions = seedTransactions(pgBalance)
    /\ pgRequests = [id \in RequestIds |-> "absent"]
    /\ audit = [lost |-> {}, charged |-> [c \in Customers |-> 0],
                held |-> {}]
    /\ pipe = NoPipe
    /\ workers = [w \in Workers |-> IdleWorker]
    /\ shutdown = "running"

\* CheckAndReserveBalance: the script runs and, when it approved, the
\* preflight write is queued.  The send of the select statement panics
\* when Close has closed the channel.
CheckAndReserveBalance(c, id, needed) ==
    LET reason == reserveRejection(balance[c], reserved[c], needed,
                                   RequestExists(id))
        approved == reason = ""
        closed == shutdown # "running"
    IN  /\ reserved' = IF approved
                       THEN [reserved EXCEPT ![c] = @ + needed]
                       ELSE reserved
        /\ requests' = IF approved
                       THEN [requests EXCEPT ![id] = newRequestRecord(c, needed)]
                       ELSE requests
        /\ keys' = IF approved THEN keys \cup {reservedKey(c)} ELSE keys
        /\ writeQueue' = IF approved /\ ~closed
                         THEN enqueue(writeQueue,
                                      writeOp("preflight", c, id, needed))
                         ELSE writeQueue
        /\ lastResult' =
              [op |-> "reserve", customer |-> c, id |-> id, arg |-> needed,
               ok |-> IF approved THEN 1 ELSE 0,
               val |-> IF approved
                       THEN balance[c] - reserved[c] - needed
                       ELSE rejectionReport(balance[c], reserved[c]),
               code |-> reason, bal |-> 0, res |-> 0,
               fault |-> IF approved /\ closed
                         THEN "send on closed channel" ELSE ""]
        /\ UNCHANGED <<balance, bootBalance, durable>>

DeductGrains(c, id, amount) ==
    LET err == deductError(balance[c], amount, RequestExists(id))
        success == err = ""
        d == deducted(balance[c], requests[id].consumed_grains, amount)
    IN  /\ success => requests[id].consumed_grains + amount <= MaxConsumed
        /\ balance' = IF success
                      THEN [balance EXCEPT ![c] = d.balance]
                      ELSE balance
        /\ requests' = IF success
                       THEN [requests EXCEPT
                               ![id].consumed_grains = d.consumed,
                               ![id].status = "streaming"]
                       ELSE requests
        /\ lastResult' =
              [op |-> "deduct", customer |-> c, id |-> id, arg |-> amount,
               ok |-> IF success THEN 1 ELSE 0,
               val |-> IF success THEN d.balance ELSE balance[c],
               code |-> err, bal |-> 0, res |-> 0, fault |-> ""]
        /\ keys' = IF success THEN keys \cup {balanceKey(c)} ELSE keys
        /\ UNCHANGED <<reserved, writeQueue, bootBalance, durable>>

\* finalize_request: what the script does to the hot store
finalizeRequestScript(c, id, status, actual) ==
    IF ~RequestExists(id) \/ alreadyFinalized(requests[id].status)
    THEN UNCHANGED <<balance, reserved, requests, keys>>
    ELSE LET rec == requests[id]
             rc == reconcile(balance[c], rec.consumed_grains, actual)
             rl == release(reserved[c], rec.reserved_grains)
         IN  /\ rc.balance <= MaxBalance
             /\ balance' = [balance EXCEPT ![c] = rc.balance]
             /\ reserved' = [reserved EXCEPT ![c] = rl.reserved]
             /\ requests' = [requests EXCEPT ![id] =
                   [rec EXCEPT
                      !.status = status,
                      !.finalized_at = 1,
                      !.integrity_issue =
                         integrityIssue(@, rc.shortfall, rl.underflow)]]
             /\ keys' = keys \cup {reservedKey(c)}
                         \cup (IF rec.consumed_grains # actual
                               THEN {balanceKey(c)} ELSE {})

\* finalize_request: the array the script returns, {ok, refund, balance}
\* or {0, 0, 'REQUEST_NOT_FOUND'}
finalizeReply(c, id, actual) ==
    IF ~RequestExists(id)
    THEN [ok |-> 0, val |-> 0, code |-> "REQUEST_NOT_FOUND", bal |-> 0]
    ELSE IF alreadyFinalized(requests[id].status)
    THEN [ok |-> 1, val |-> 0, code |-> "", bal |-> balance[c]]
    ELSE LET rc == reconcile(balance[c], requests[id].consumed_grains,
                             actual)
         IN  [ok |-> 1, val |-> rc.refund, code |-> "", bal |-> rc.balance]

\* FinalizeRequest: the script runs, its reply is parsed and the
\* finalization write is queued.  On {0, 0, 'REQUEST_NOT_FOUND'} the
\* assertion resultArray[2].(int64) faults before the write is queued;
\* the send of the select statement panics when Close has closed the
\* channel.
FinalizeRequest(c, id, status, actual) ==
    LET reply == finalizeReply(c, id, actual)
        fault == IF reply.code = "REQUEST_NOT_FOUND" THEN "panic"
                 ELSE IF shutdown # "running" THEN "send on closed channel"
                 ELSE ""
    IN  /\ finalizeRequestScript(c, id, status, actual)
        /\ lastResult' =
              [op |-> "finalize", customer |-> c, id |-> id, arg |-> actual,
               ok |-> reply.ok, val |-> reply.val, code |-> reply.code,
               bal |-> reply.bal, res |-> 0, fault |-> fault]
        /\ writeQueue' =
              IF fault = ""
              THEN enqueue(writeQueue, writeOp("finalization", c, id, actual))
              ELSE writeQueue
        /\ UNCHANGED <<bootBalance, durable>>

\* FinalizeRequest whose context ends after the script was dispatched:
\* Redis runs the script to the end, Run returns the context error and
\* the method returns it without parsing a reply or queueing a write
FinalizeRequestLost(c, id, status, actual) ==
    /\ finalizeRequestScript(c, id, status, actual)
    /\ lastResult' =
          [op |-> "finalize", customer |-> c, id |-> id, arg |-> actual,
           ok |-> 0, val |-> 0, code |-> "", bal |-> 0, res |-> 0,
           fault |-> "deadline"]
    /\ UNCHANGED <<writeQueue, bootBalance, durable>>

\* GetBalance: both keys read in one pipeline, a missing key reads as 0
GetBalance(c) ==
    LET bal == IF balanceKey(c) \in keys THEN balance[c] ELSE 0
        res == IF reservedKey(c) \in keys THEN reserved[c] ELSE 0
    IN  /\ lastResult' =
              [op |-> "get_balance", customer |-> c, id |-> "", arg |-> 0,
               ok |-> 1, val |-> availableBalance(bal, res), code |-> "",
               bal |-> bal, res |-> res, fault |-> ""]
        /\ UNCHANGED <<balance, reserved, requests, writeQueue, keys,
                       bootBalance, durable>>

\* GetBalance with its pipeline seen command by command: Pipeline() sends
\* both GETs in one round trip without MULTI/EXEC, so Redis may run the
\* commands and scripts of other connections between the two.  The first
\* command, GET customer:balance:{id}, runs
pipeGetBalance(c) ==
    /\ ~pipe.sent
    /\ pipe' = [sent |-> TRUE, customer |-> c,
                bal |-> IF balanceKey(c) \in keys THEN balance[c] ELSE 0]
    /\ UNCHANGED <<balance, reserved, requests, writeQueue, lastResult,
                   keys, bootBalance, durable>>

\* the second command, GET customer:reserved:{id}, runs and GetBalance
\* returns balance, reserved and available = balance - reserved
pipeGetReserved ==
    /\ pipe.sent
    /\ LET c == pipe.customer
           res == IF reservedKey(c) \in keys THEN reserved[c] ELSE 0
       IN  lastResult' =
              [op |-> "get_balance", customer |-> c, id |-> "", arg |-> 0,
               ok |-> 1, val |-> availableBalance(pipe.bal, res),
               code |-> "", bal |-> pipe.bal, res |-> res, fault |-> ""]
    /\ pipe' = NoPipe
    /\ UNCHANGED <<balance, reserved, requests, writeQueue, keys,
                   bootBalance, durable>>

\* a worker takes the next queued write and runs it against PostgreSQL,
\* retrying up to maxRetries times; dbUp tells whether the store answers
\* on any of the attempts.  A write that fails on all of them is given up.
asyncWriteWorker(dbUp) ==
    /\ writeQueue # <<>>
    /\ LET op == Head(writeQueue)
           written == IF op.opType = "preflight"
                      THEN dbUp /\ writePreflightToDB(op)
                      ELSE dbUp
       IN  /\ written => Len(pgTransactions) < MaxTx
           /\ pgTransactions' =
                 IF written /\ op.opType = "finalization"
                 THEN writeFinalizationToDB(pgTransactions, op)
                 ELSE pgTransactions
           /\ pgRequests' = IF written THEN writtenRequests(pgRequests, op)
                            ELSE pgRequests
    /\ writeQueue' = Tail(writeQueue)
    /\ UNCHANGED <<balance, reserved, requests, lastResult, keys,
                   bootBalance, pgBalance>>

\* Redis removes a request hash whose TTL has run out
Expire(id) ==
    /\ RequestExists(id)
    /\ requests' = [requests EXCEPT ![id] = NoRecord]
    /\ UNCHANGED <<balance, reserved, writeQueue, lastResult, keys,
                   bootBalance, durable>>

(* --------------------------- BalanceService ---------------------------- *)

\* int64(x) of a float64 x = n / d, d > 0: truncation toward zero
trunc(n, d) == IF n >= 0 THEN n \div d ELSE -((-n) \div d)

\* BufferMultiplier values a client sends, in tenths; 0 is "not provided"
BufferTenths == {0, 5, 10}

\* input_cost_per_million_tokens of claude-3-haiku and of gpt-3.5-turbo
PricesPerMillion == {800000, 1500000}

\* CheckBalance: int64(float64(EstimatedGrains) * bufferMultiplier), the
\* multiplier defaulting to 1.2
reservedGrains(estimated, tenths) ==
    LET mult == IF tenths = 0 THEN 12 ELSE tenths
    IN  trunc(estimated * mult, 10)

\* DeductTokens: int64(float64(TokensConsumed) * costPerToken) with
\* costPerToken = cost per million tokens / 1_000_000
grainCost(tokens, perMillion) == trunc(tokens * perMillion, 1000000)

\* sha256 of "requestID:customerID:secretKey"
generateRequestToken(id, c) == <<id, c, "secret">>

validateRequestToken(token, id, c) == token = generateRequestToken(id, c)

\* what an RPC method returns when it ends before calling the ledger
rpcError(op, c, id, arg, code) ==
    [op |-> op, customer |-> c, id |-> id, arg |-> arg, ok |-> 0,
     val |-> 0, code |-> code, bal |-> 0, res |-> 0, fault |-> ""]

\* BalanceService.CheckBalance, the API key being valid
CheckBalance(c, id, estimated, tenths) ==
    IF c = "" \/ id = "" \/ estimated <= 0
    THEN /\ lastResult' =
               rpcError("reserve", c, id, estimated, "INVALID_ARGUMENT")
         /\ UNCHANGED <<balance, reserved, requests, writeQueue, keys,
                        bootBalance, durable>>
    ELSE CheckAndReserveBalance(c, id, reservedGrains(estimated, tenths))

\* BalanceService.DeductTokens for a model whose price is perMillion
DeductTokens(c, id, token, tokens, perMillion) ==
    IF ~validateRequestToken(token, id, c)
    THEN /\ lastResult' =
               rpcError("deduct", c, id, tokens, "PERMISSION_DENIED")
         /\ UNCHANGED <<balance, reserved, requests, writeQueue, keys,
                        bootBalance, durable>>
    ELSE IF tokens <= 0
    THEN /\ lastResult' =
               rpcError("deduct", c, id, tokens, "INVALID_ARGUMENT")
         /\ UNCHANGED <<balance, reserved, requests, writeQueue, keys,
                        bootBalance, durable>>
    ELSE DeductGrains(c, id, grainCost(tokens, perMillion))

\* BalanceService.FinalizeRequest, status being one of the four enum values
ServiceFinalizeRequest(c, id, status, actual) ==
    IF c = "" \/ id = "" \/ actual < 0
    THEN /\ lastResult' =
               rpcError("finalize", c, id, actual, "INVALID_ARGUMENT")
         /\ UNCHANGED <<balance, reserved, requests, writeQueue, keys,
                        bootBalance, durable>>
    ELSE FinalizeRequest(c, id, status, actual)

\* a request token that was not issued by generateRequestToken
ForgedToken == <<"", "", "">>

\* BalanceService.CheckBalance from its first statement: ValidateAPIKey on
\* the call's metadata, apiKeyValid telling what it answers
AuthCheckBalance(apiKeyValid, c, id, estimated, tenths) ==
    IF ~apiKeyValid
    THEN /\ lastResult' =
               rpcError("reserve", c, id, estimated, "UNAUTHENTICATED")
         /\ UNCHANGED <<balance, reserved, requests, writeQueue, keys,
                        bootBalance, durable>>
    ELSE CheckBalance(c, id, estimated, tenths)

\* BalanceService.FinalizeRequest as called over the wire: the method
\* reads neither the API key of the call nor a request token
AuthFinalizeRequest(apiKeyValid, token, c, id, status, actual) ==
    ServiceFinalizeRequest(c, id, status, actual)

(* ------------------------ workers, one attempt a step ------------------ *)

\* for op := range l.writeQueue: an idle worker receives the oldest op
workerReceive(w) ==
    /\ workers[w].state = "idle"
    /\ writeQueue # <<>>
    /\ workers' = [workers EXCEPT ![w] =
                      [@ EXCEPT !.state = "busy", !.op = Head(writeQueue),
                                !.attempt = 1]]
    /\ writeQueue' = Tail(writeQueue)
    /\ UNCHANGED <<balance, reserved, requests, lastResult, keys,
                   bootBalance, durable, shutdown>>

\* one attempt of the retry loop; dbUp tells whether PostgreSQL answers it
workerAttempt(w, dbUp) ==
    LET wk == workers[w]
        written == IF wk.op.opType = "preflight"
                   THEN dbUp /\ writePreflightToDB(wk.op)
                   ELSE dbUp
        outcome == attemptOutcome(wk.attempt, written)
    IN  /\ wk.state = "busy"
        /\ written => Len(pgTransactions) < MaxTx
        /\ pgTransactions' =
              IF written /\ wk.op.opType = "finalization"
              THEN writeFinalizationToDB(pgTransactions, wk.op)
              ELSE pgTransactions
        /\ pgRequests' = IF written THEN writtenRequests(pgRequests, wk.op)
                         ELSE pgRequests
        /\ workers' = [workers EXCEPT ![w] =
              IF outcome = "retry"
              THEN [wk EXCEPT !.attempt = @ + 1]
              ELSE [IdleWorker EXCEPT
                      !.gaveUp = wk.gaveUp \/ outcome = "abandoned"]]
        /\ UNCHANGED <<balance, reserved, requests, writeQueue, lastResult,
                       keys, bootBalance, pgBalance, shutdown>>

\* the range loop ends once the channel is closed and empty: wg.Done()
workerStop(w) ==
    /\ workers[w].state = "idle"
    /\ writeQueue = <<>>
    /\ shutdown # "running"
    /\ workers' = [workers EXCEPT ![w].state = "stopped"]
    /\ UNCHANGED <<balance, reserved, requests, writeQueue, lastResult,
                   keys, bootBalance, durable, shutdown>>

\* Close up to l.wg.Wait(): close(l.writeQueue)
Close ==
    /\ shutdown = "running"
    /\ shutdown' = "closing"
    /\ UNCHANGED <<balance, reserved, requests, writeQueue, lastResult,
                   keys, bootBalance, durable, workers>>

\* l.wg.Wait() returns when every worker has called wg.Done(); Close then
\* closes both connections and returns
CloseReturn ==
    /\ shutdown = "closing"
    /\ wgDone(workers)
    /\ shutdown' = "returned"
    /\ UNCHANGED <<balance, reserved, requests, writeQueue, lastResult,
                   keys, bootBalance, durable, workers>>

(* ------------------------------- syncer -------------------------------- *)

\* what a syncer routine reports: n is the count it logs or returns
syncResult(op, n) ==
    [op |-> op, customer |-> "", id |-> "", arg |-> 0, ok |-> 1, val |-> n,
     code |-> "", bal |-> 0, res |-> 0, fault |-> ""]

SyncOps == {"initialize_redis", "periodic_sync", "sync_customer",
            "verify_integrity"}

\* InitializeRedis (startup, and admin sync-all at any time): for every
\* customer row SET ":balance:{id}" to the durable balance and SET
\* "customer:reserved:{id}" to 0
InitializeRedis ==
    /\ bootBalance' = [c \in Customers |-> pgBalance[c]]
    /\ reserved' = [c \in Customers |-> 0]
    /\ keys' = keys \cup {reservedKey(c) : c \in Customers}
    /\ lastResult' = syncResult("initialize_redis", Cardinality(Customers))
    /\ UNCHANGED <<balance, requests, writeQueue, durable>>

\* syncRecentlyUpdatedCustomers: SET the balance key of every customer
\* whose row was updated within the last hour (recent) to its durable
\* balance; reserved is not touched
syncRecentlyUpdatedCustomers(recent) ==
    /\ balance' = [c \in Customers |->
                      IF c \in recent THEN pgBalance[c] ELSE balance[c]]
    /\ keys' = keys \cup {balanceKey(c) : c \in recent}
    /\ lastResult' = syncResult("periodic_sync", Cardinality(recent))
    /\ UNCHANGED <<reserved, requests, writeQueue, bootBalance, durable>>

SyncCustomerClearsReserved(c) ==
    /\ balance' = [balance EXCEPT ![c] = pgBalance[c]]
    /\ reserved' = [reserved EXCEPT ![c] = 0]
    /\ keys' = keys \cup {balanceKey(c)}
    /\ lastResult' = syncResult("sync_customer", 1)
    /\ UNCHANGED <<requests, writeQueue, bootBalance, durable>>

\* SyncCustomer: SET the customer's balance key to its durable balance
SyncCustomer(c) ==
    /\ balance' = [balance EXCEPT ![c] = pgBalance[c]]
    /\ keys' = keys \cup {balanceKey(c)}
    /\ lastResult' = syncResult("sync_customer", 1)
    /\ UNCHANGED <<reserved, requests, writeQueue, bootBalance, durable>>

\* VerifyIntegrity over the sampled customers: a missing balance key is
\* counted and left alone, a differing balance is counted and overwritten
\* with the durable balance (SyncCustomer)
VerifyIntegrity(sample) ==
    LET missing == {c \in sample : balanceKey(c) \notin keys}
        differing == {c \in sample \ missing : balance[c] # pgBalance[c]}
    IN  /\ balance' = [c \in Customers |->
                          IF c \in differing THEN pgBalance[c] ELSE balance[c]]
        /\ lastResult' = syncResult("verify_integrity",
                                    Cardinality(missing \cup differing))
        /\ UNCHANGED <<reserved, requests, writeQueue, keys, bootBalance,
                       durable>>

(* ------------------------------- history ------------------------------- *)

\* after a ledger call: a write it had to queue and could not is lost, and
\* a Finalize that took effect adds its actual cost to the customer's total
ObserveLedger ==
    LET r == lastResult'
        queued == \/ r.op = "reserve" /\ r.ok = 1
                  \/ r.op = "finalize" /\ r.fault = ""
        dropped == queued /\ writeQueue' = writeQueue
        kind == IF r.op = "reserve" THEN "preflight" ELSE "finalization"
        charge == IF r.op = "finalize" /\ requests' # requests
                  THEN r.arg ELSE 0
    IN  /\ audit.charged[r.customer] + charge <= MaxCharged
        /\ audit' = [lost |-> IF dropped THEN audit.lost \cup {kind}
                              ELSE audit.lost,
                     charged |-> [audit.charged EXCEPT ![r.customer] =
                                     @ + charge],
                     held |-> audit.held]

\* after a worker step: a write given up after the last retry is lost
ObserveWorker ==
    LET op == Head(writeQueue)
        written == op.opType = "finalization"
                      /\ pgTransactions' # pgTransactions
    IN  audit' = [audit EXCEPT !.lost =
                     IF written THEN @ ELSE @ \cup {op.opType}]

(* --------------------------- specifications ---------------------------- *)

\* one status of each kind the finalize script tells apart: one that its
\* idempotency check names and the one it does not name
TwoStatuses == {"completed", "timeout"}

\* two request ids of one customer: every ledger call with non-negative
\* amounts, the worker, and expiry.  The durable store is out of reach, so
\* only the hot store and the queue move; no history is kept.
Next ==
    \/ \E c \in Customers, id \in RequestIds, needed \in 1..MaxGrains :
          CheckAndReserveBalance(c, id, needed) /\ UNCHANGED <<audit, pipe, workerPool>>
    \/ \E c \in Customers, id \in RequestIds, amount \in 0..MaxGrains :
          DeductGrains(c, id, amount) /\ UNCHANGED <<audit, pipe, workerPool>>
    \/ \E c \in Customers, id \in RequestIds, status \in TwoStatuses,
          actual \in 0..MaxCost :
          FinalizeRequest(c, id, status, actual) /\ UNCHANGED <<audit, pipe, workerPool>>
    \/ asyncWriteWorker(FALSE) /\ UNCHANGED <<audit, pipe, workerPool>>
    \/ \E id \in RequestIds : Expire(id) /\ UNCHANGED <<audit, pipe, workerPool>>

Spec == Init /\ [][Next]_vars

\* ledger calls with positive amounts only, no expiry of request hashes
NextLedger ==
    \/ \E c \in Customers, id \in RequestIds, needed \in 1..MaxGrains :
          CheckAndReserveBalance(c, id, needed) /\ UNCHANGED <<audit, pipe, workerPool>>
    \/ \E c \in Customers, id \in RequestIds, amount \in 1..MaxGrains :
          DeductGrains(c, id, amount) /\ UNCHANGED <<audit, pipe, workerPool>>
    \/ \E c \in Customers, id \in RequestIds, status \in TwoStatuses,
          actual \in 1..MaxCost :
          FinalizeRequest(c, id, status, actual) /\ UNCHANGED <<audit, pipe, workerPool>>
    \/ asyncWriteWorker(FALSE) /\ UNCHANGED <<audit, pipe, workerPool>>

SpecLedger == Init /\ [][NextLedger]_vars

\* the life of a single request id under every terminal status
NextOneRequest ==
    \/ \E c \in Customers, needed \in 1..MaxGrains :
          CheckAndReserveBalance(c, "r1", needed) /\ UNCHANGED <<audit, pipe, workerPool>>
    \/ \E c \in Customers, amount \in 0..MaxGrains :
          DeductGrains(c, "r1", amount) /\ UNCHANGED <<audit, pipe, workerPool>>
    \/ \E c \in Customers, status \in FinalStatuses, actual \in 0..MaxCost :
          FinalizeRequest(c, "r1", status, actual)
          /\ UNCHANGED <<audit, pipe, workerPool>>
    \/ asyncWriteWorker(FALSE) /\ UNCHANGED <<audit, pipe, workerPool>>
    \/ Expire("r1") /\ UNCHANGED <<audit, pipe, workerPool>>

SpecOneRequest == Init /\ [][NextOneRequest]_vars

\* a fresh deployment: seeded durable store, empty Redis, empty queue
InitSync ==
    /\ pgBalance \in [Customers -> 0..MaxBalance]
    /\ pgTransactions = seedTransactions(pgBalance)
    /\ balance = [c \in Customers |-> 0]
    /\ reserved = [c \in Customers |-> 0]
    /\ keys = {}
    /\ bootBalance = [c \in Customers |-> Nil]
    /\ requests = [id \in RequestIds |-> NoRecord]
    /\ writeQueue = <<>>
    /\ lastResult = NoResult
    /\ pgRequests = [id \in RequestIds |-> "absent"]
    /\ audit = [lost |-> {}, charged |-> [c \in Customers |-> 0],
                held |-> {}]
    /\ pipe = NoPipe
    /\ workers = [w \in Workers |-> IdleWorker]
    /\ shutdown = "running"

\* one request id next to the syncer, the worker with the durable store
\* answering or not, and GetBalance; history is kept
NextSync ==
    \/ \E c \in Customers, needed \in 1..MaxGrains :
          CheckAndReserveBalance(c, "r1", needed)
          /\ ObserveLedger /\ UNCHANGED <<pipe, workerPool>>
    \/ \E c \in Customers, amount \in 0..MaxGrains :
          DeductGrains(c, "r1", amount) /\ UNCHANGED <<audit, pipe, workerPool>>
    \/ \E c \in Customers, status \in TwoStatuses, actual \in 0..MaxCost :
          FinalizeRequest(c, "r1", status, actual)
          /\ ObserveLedger /\ UNCHANGED <<pipe, workerPool>>
    \/ \E c \in Customers : GetBalance(c) /\ UNCHANGED <<audit, pipe, workerPool>>
    \/ \E dbUp \in BOOLEAN :
          asyncWriteWorker(dbUp) /\ ObserveWorker /\ UNCHANGED <<pipe, workerPool>>
    \/ InitializeRedis /\ UNCHANGED <<audit, pipe, workerPool>>
    \/ \E recent \in SUBSET Customers :
          syncRecentlyUpdatedCustomers(recent) /\ UNCHANGED <<audit, pipe, workerPool>>
    \/ \E c \in Customers : SyncCustomer(c) /\ UNCHANGED <<audit, pipe, workerPool>>
    \/ \E sample \in SUBSET Customers :
          VerifyIntegrity(sample) /\ UNCHANGED <<audit, pipe, workerPool>>

SpecSync == InitSync /\ [][NextSync]_vars

\* the worker pool attempt by attempt, and Close: ledger calls run while
\* the ledger is open (Close is called once no call is in progress)
NextWorker ==
    \/ \E c \in Customers :
          /\ shutdown = "running"
          /\ CheckAndReserveBalance(c, "r1", MaxGrains)
          /\ UNCHANGED <<audit, pipe, workerPool>>
    \/ \E c \in Customers :
          /\ shutdown = "running"
          /\ FinalizeRequest(c, "r1", "completed", MaxGrains)
          /\ UNCHANGED <<audit, pipe, workerPool>>
    \/ \E w \in Workers : workerReceive(w) /\ UNCHANGED <<audit, pipe>>
    \/ \E w \in Workers, dbUp \in BOOLEAN :
          workerAttempt(w, dbUp) /\ UNCHANGED <<audit, pipe>>
    \/ \E w \in Workers : workerStop(w) /\ UNCHANGED <<audit, pipe>>
    \/ Close /\ UNCHANGED <<audit, pipe>>
    \/ CloseReturn /\ UNCHANGED <<audit, pipe>>

SpecWorker == Init /\ [][NextWorker]_vars

\* every attempt ends (each statement runs under a 5 s timeout), every
\* goroutine keeps being scheduled
FairWorker ==
    /\ \A w \in Workers :
          /\ WF_vars(workerReceive(w) /\ UNCHANGED <<audit, pipe>>)
          /\ WF_vars((\E dbUp \in BOOLEAN : workerAttempt(w, dbUp))
                        /\ UNCHANGED <<audit, pipe>>)
          /\ WF_vars(workerStop(w) /\ UNCHANGED <<audit, pipe>>)
    /\ WF_vars(CloseReturn /\ UNCHANGED <<audit, pipe>>)

SpecWorkerLive == SpecWorker /\ FairWorker

\* ledger calls next to Close: a call runs its script as long as Close
\* has not closed the Redis client, which it does after l.wg.Wait()
NextClose ==
    \/ \E c \in Customers :
          /\ shutdown # "returned"
          /\ CheckAndReserveBalance(c, "r1", MaxGrains)
          /\ UNCHANGED <<audit, pipe, workerPool>>
    \/ \E c \in Customers :
          /\ shutdown # "returned"
          /\ FinalizeRequest(c, "r1", "completed", MaxGrains)
          /\ UNCHANGED <<audit, pipe, workerPool>>
    \/ \E w \in Workers : workerReceive(w) /\ UNCHANGED <<audit, pipe>>
    \/ \E w \in Workers, dbUp \in BOOLEAN :
          workerAttempt(w, dbUp) /\ UNCHANGED <<audit, pipe>>
    \/ \E w \in Workers : workerStop(w) /\ UNCHANGED <<audit, pipe>>
    \/ Close /\ UNCHANGED <<audit, pipe>>
    \/ CloseReturn /\ UNCHANGED <<audit, pipe>>

SpecClose == Init /\ [][NextClose]_vars

\* the worker pool with PostgreSQL answering every statement
NextAvailable ==
    \/ \E c \in Customers :
          /\ shutdown = "running"
          /\ CheckAndReserveBalance(c, "r1", MaxGrains)
          /\ UNCHANGED <<audit, pipe, workerPool>>
    \/ \E c \in Customers, status \in TwoStatuses :
          /\ shutdown = "running"
          /\ FinalizeRequest(c, "r1", status, MaxGrains)
          /\ UNCHANGED <<audit, pipe, workerPool>>
    \/ \E w \in Workers : workerReceive(w) /\ UNCHANGED <<audit, pipe>>
    \/ \E w \in Workers : workerAttempt(w, TRUE) /\ UNCHANGED <<audit, pipe>>
    \/ \E w \in Workers : workerStop(w) /\ UNCHANGED <<audit, pipe>>
    \/ Close /\ UNCHANGED <<audit, pipe>>
    \/ CloseReturn /\ UNCHANGED <<audit, pipe>>

SpecAvailable == Init /\ [][NextAvailable]_vars

FairAvailable ==
    /\ \A w \in Workers :
          /\ WF_vars(workerReceive(w) /\ UNCHANGED <<audit, pipe>>)
          /\ WF_vars(workerAttempt(w, TRUE) /\ UNCHANGED <<audit, pipe>>)
          /\ WF_vars(workerStop(w) /\ UNCHANGED <<audit, pipe>>)
    /\ WF_vars(CloseReturn /\ UNCHANGED <<audit, pipe>>)

SpecAvailableLive == SpecAvailable /\ FairAvailable

\* the life of a single request id whose Finalize calls may lose their
\* response after the script ran
NextRetry ==
    \/ \E c \in Customers, needed \in 1..MaxGrains :
          CheckAndReserveBalance(c, "r1", needed)
          /\ UNCHANGED <<audit, pipe, workerPool>>
    \/ \E c \in Customers, amount \in 0..MaxGrains :
          DeductGrains(c, "r1", amount) /\ UNCHANGED <<audit, pipe, workerPool>>
    \/ \E c \in Customers, status \in FinalStatuses, actual \in 0..MaxCost :
          FinalizeRequest(c, "r1", status, actual)
          /\ UNCHANGED <<audit, pipe, workerPool>>
    \/ \E c \in Customers, status \in FinalStatuses, actual \in 0..MaxCost :
          FinalizeRequestLost(c, "r1", status, actual)
          /\ UNCHANGED <<audit, pipe, workerPool>>
    \/ asyncWriteWorker(FALSE) /\ UNCHANGED <<audit, pipe, workerPool>>

SpecRetry == Init /\ [][NextRetry]_vars

\* reservations of every size up to the largest balance, so that a request
\* can exceed what is available while part of it would fit
NextReserve ==
    \/ \E c \in Customers, id \in RequestIds, needed \in 1..MaxBalance :
          CheckAndReserveBalance(c, id, needed)
          /\ UNCHANGED <<audit, pipe, workerPool>>
    \/ \E c \in Customers, id \in RequestIds, amount \in 1..MaxGrains :
          DeductGrains(c, id, amount) /\ UNCHANGED <<audit, pipe, workerPool>>
    \/ \E c \in Customers, id \in RequestIds, actual \in 0..MaxCost :
          FinalizeRequest(c, id, "completed", actual)
          /\ UNCHANGED <<audit, pipe, workerPool>>
    \/ asyncWriteWorker(FALSE) /\ UNCHANGED <<audit, pipe, workerPool>>

SpecReserve == Init /\ [][NextReserve]_vars

\* two customers whose callers can name each other's request id
TwoCustomers == Customers \cup {"c2"}

InitTwoCustomers ==
    /\ balance \in [TwoCustomers -> 0..MaxBalance]
    /\ reserved = [c \in TwoCustomers |-> 0]
    /\ requests = [id \in RequestIds |-> NoRecord]
    /\ writeQueue = <<>>
    /\ lastResult = NoResult
    /\ keys = {balanceKey(c) : c \in TwoCustomers}
                \cup {reservedKey(c) : c \in TwoCustomers}
    /\ pgBalance = [c \in TwoCustomers |-> MaxBalance]
    /\ bootBalance = pgBalance
    /\ pgTransactions = seedTransactions(pgBalance)
    /\ pgRequests = [id \in RequestIds |-> "absent"]
    /\ audit = [lost |-> {}, charged |-> [c \in Customers |-> 0],
                held |-> {}]
    /\ pipe = NoPipe
    /\ workers = [w \in Workers |-> IdleWorker]
    /\ shutdown = "running"

\* one request id that the callers of either customer pass to the ledger
NextTwoCustomers ==
    \/ \E c \in TwoCustomers, needed \in 1..MaxGrains :
          CheckAndReserveBalance(c, "r1", needed)
          /\ UNCHANGED <<audit, pipe, workerPool>>
    \/ \E c \in TwoCustomers, amount \in 1..MaxGrains :
          DeductGrains(c, "r1", amount) /\ UNCHANGED <<audit, pipe, workerPool>>
    \/ \E c \in TwoCustomers, status \in TwoStatuses,
          actual \in 0..MaxCost :
          FinalizeRequest(c, "r1", status, actual)
          /\ UNCHANGED <<audit, pipe, workerPool>>
    \/ asyncWriteWorker(FALSE) /\ UNCHANGED <<audit, pipe, workerPool>>

SpecTwoCustomers == InitTwoCustomers /\ [][NextTwoCustomers]_vars

\* the (balance, reserved) pairs the balance and reserved keys hold
heldPairs ==
    {<<c, IF balanceKey(c) \in keys THEN balance[c] ELSE 0,
          IF reservedKey(c) \in keys THEN reserved[c] ELSE 0>> :
       c \in Customers}

\* after any step: the pairs held now are added to the history
ObserveHeld == audit' = [audit EXCEPT !.held = @ \cup heldPairs']

InitSnapshot ==
    /\ balance \in [Customers -> 0..MaxBalance]
    /\ reserved = [c \in Customers |-> 0]
    /\ requests = [id \in RequestIds |-> NoRecord]
    /\ writeQueue = <<>>
    /\ lastResult = NoResult
    /\ keys = {balanceKey(c) : c \in Customers}
                \cup {reservedKey(c) : c \in Customers}
    /\ pgBalance = [c \in Customers |-> MaxBalance]
    /\ bootBalance = pgBalance
    /\ pgTransactions = seedTransactions(pgBalance)
    /\ pgRequests = [id \in RequestIds |-> "absent"]
    /\ audit = [lost |-> {}, charged |-> [c \in Customers |-> 0],
                held |-> heldPairs]
    /\ pipe = NoPipe
    /\ workers = [w \in Workers |-> IdleWorker]
    /\ shutdown = "running"

\* one request id whose scripts run next to a GetBalance of the customer
NextSnapshot ==
    \/ \E c \in Customers, needed \in 1..MaxGrains :
          CheckAndReserveBalance(c, "r1", needed)
          /\ ObserveHeld /\ UNCHANGED <<pipe, workerPool>>
    \/ \E c \in Customers, amount \in 1..MaxGrains :
          DeductGrains(c, "r1", amount)
          /\ ObserveHeld /\ UNCHANGED <<pipe, workerPool>>
    \/ \E c \in Customers, actual \in 0..MaxCost :
          FinalizeRequest(c, "r1", "completed", actual)
          /\ ObserveHeld /\ UNCHANGED <<pipe, workerPool>>
    \/ \E c \in Customers :
          pipeGetBalance(c) /\ UNCHANGED <<audit, workerPool>>
    \/ pipeGetReserved /\ UNCHANGED <<audit, workerPool>>
    \/ asyncWriteWorker(FALSE) /\ UNCHANGED <<audit, pipe, workerPool>>

SpecSnapshot == InitSnapshot /\ [][NextSnapshot]_vars

\* customer ids and request ids an RPC request can carry
RpcCustomers == Customers \cup {""}
RpcRequestIds == {"r1", ""}

\* the RPC methods of the BalanceService in front of the ledger, one
\* request id, tokens issued for it
NextService ==
    \/ \E c \in RpcCustomers, id \in RpcRequestIds,
          estimated \in -1..MaxGrains, tenths \in BufferTenths :
          CheckBalance(c, id, estimated, tenths)
          /\ UNCHANGED <<audit, pipe, workerPool>>
    \/ \E c \in RpcCustomers, tc \in Customers, tokens \in 0..2,
          perMillion \in PricesPerMillion :
          DeductTokens(c, "r1", generateRequestToken("r1", tc), tokens,
                       perMillion)
          /\ UNCHANGED <<audit, pipe, workerPool>>
    \/ \E c \in RpcCustomers, id \in RpcRequestIds,
          status \in TwoStatuses, actual \in -1..MaxCost :
          ServiceFinalizeRequest(c, id, status, actual)
          /\ UNCHANGED <<audit, pipe, workerPool>>
    \/ asyncWriteWorker(FALSE) /\ UNCHANGED <<audit, pipe, workerPool>>

SpecService == Init /\ [][NextService]_vars

\* tokens a caller can present for request r1
RpcTokens == {generateRequestToken("r1", c) : c \in Customers}
                \cup {ForgedToken}

\* the RPC methods called with and without valid credentials
NextAuth ==
    \/ \E apiKeyValid \in BOOLEAN, c \in Customers,
          estimated \in 1..MaxGrains :
          AuthCheckBalance(apiKeyValid, c, "r1", estimated, 10)
          /\ UNCHANGED <<audit, pipe, workerPool>>
    \/ \E c \in Customers, token \in RpcTokens, tokens \in 1..2 :
          DeductTokens(c, "r1", token, tokens, 1500000)
          /\ UNCHANGED <<audit, pipe, workerPool>>
    \/ \E apiKeyValid \in BOOLEAN, token \in RpcTokens, c \in Customers,
          status \in TwoStatuses, actual \in 0..MaxCost :
          AuthFinalizeRequest(apiKeyValid, token, c, "r1", status, actual)
          /\ UNCHANGED <<audit, pipe, workerPool>>
    \/ asyncWriteWorker(FALSE) /\ UNCHANGED <<audit, pipe, workerPool>>

SpecAuth == Init /\ [][NextAuth]_vars

(* ------------------------------- claims -------------------------------- *)

RECURSIVE SumOver(_, _)
\* sum of f[x] over the finite set S
SumOver(S, f) ==
    IF S = {} THEN 0
    ELSE LET x == CHOOSE y \in S : TRUE IN f[x] + SumOver(S \ {x}, f)

\* request ids of customer c whose record is not in a terminal status
InFlight(c) ==
    {id \in RequestIds : /\ RequestExists(id)
                         /\ requests[id].customer_id = c
                         /\ requests[id].status \notin FinalStatuses}

InFlightReserved(c) ==
    SumOver(InFlight(c), [id \in RequestIds |->
        IF RequestExists(id) THEN requests[id].reserved_grains ELSE 0])

InFlightConsumed(c) ==
    SumOver(InFlight(c), [id \in RequestIds |->
        IF RequestExists(id) THEN requests[id].consumed_grains ELSE 0])

Available(c) == balance[c] - reserved[c]

\* the record of id has never been finalized: the next Finalize is its first
NeverFinalized(id) ==
    /\ RequestExists(id)
    /\ requests[id].status \in InFlightStatuses
    /\ requests[id].finalized_at = 0

\* the step is the CheckAndReserve call whose arguments lastResult' names
ReserveStep ==
    /\ lastResult'.op = "reserve"
    /\ CheckAndReserveBalance(lastResult'.customer, lastResult'.id,
                              lastResult'.arg)

\* the step is the Deduct call whose arguments lastResult' names
DeductStep ==
    /\ lastResult'.op = "deduct"
    /\ DeductGrains(lastResult'.customer, lastResult'.id, lastResult'.arg)

\* the step is the Finalize call whose arguments lastResult' names; the
\* status it passed is the one the record carries afterwards (a call that
\* leaves the record alone does not use its status argument)
FinalizeStep ==
    /\ lastResult'.op = "finalize"
    /\ FinalizeRequest(lastResult'.customer, lastResult'.id,
                       IF requests'[lastResult'.id].status \in FinalStatuses
                       THEN requests'[lastResult'.id].status
                       ELSE "completed",
                       lastResult'.arg)

\* C1: under any interleaving of CheckAndReserve, Deduct and Finalize with
\* non-negative amounts, the balance of every customer is >= 0 in every
\* reachable state.
C1_BalanceNeverNegative == \A c \in Customers : balance[c] >= 0

\* C1 witness: a Finalize whose actual cost the balance could not cover has
\* clamped the balance to 0.
C1_Witness ==
    /\ lastResult.op = "finalize"
    /\ lastResult.val < 0
    /\ balance[lastResult.customer] = 0
    /\ requests[lastResult.id].status \in FinalStatuses
    /\ requests[lastResult.id].integrity_issue = "undercharge_shortfall"

\* the pool available before the previous call, a CheckAndReserve, ran
C2_PoolBefore ==
    IF lastResult.ok = 1
    THEN Available(lastResult.customer) + lastResult.arg
    ELSE Available(lastResult.customer)

\* two CheckAndReserve calls of one customer run back to back, both for
\* request ids without a record
C2_TwoCalls ==
    /\ ReserveStep
    /\ lastResult.op = "reserve"
    /\ lastResult.customer = lastResult'.customer
    /\ lastResult.code # "REQUEST_EXISTS"
    /\ ~RequestExists(lastResult'.id)

C2_ExactlyOneApproved ==
    \/ /\ lastResult.ok = 1
       /\ lastResult'.ok = 0
       /\ lastResult'.code = "INSUFFICIENT_BALANCE"
    \/ /\ lastResult.ok = 0
       /\ lastResult.code = "INSUFFICIENT_BALANCE"
       /\ lastResult'.ok = 1

\* C2 as stated: a CheckAndReserve is approved only if balance - reserved >=
\* R when the script runs, and of two back-to-back calls that each ask for
\* more than half of the available pool exactly one is approved and the
\* other is rejected with INSUFFICIENT_BALANCE.
C2_AsStated ==
    [][/\ (ReserveStep /\ lastResult'.ok = 1)
             => Available(lastResult'.customer) >= lastResult'.arg
       /\ (/\ C2_TwoCalls
           /\ 2 * lastResult.arg > C2_PoolBefore
           /\ 2 * lastResult'.arg > C2_PoolBefore)
             => C2_ExactlyOneApproved]_vars

\* C2 amended: a CheckAndReserve is approved only if balance - reserved >= R
\* when the script runs, and of two back-to-back calls that each ask for
\* more than half of the available pool and no more than the whole pool
\* exactly one is approved and the other is rejected with
\* INSUFFICIENT_BALANCE.
C2_Admission ==
    [][/\ (ReserveStep /\ lastResult'.ok = 1)
             => Available(lastResult'.customer) >= lastResult'.arg
       /\ (/\ C2_TwoCalls
           /\ 2 * lastResult.arg > C2_PoolBefore
           /\ 2 * lastResult'.arg > C2_PoolBefore
           /\ lastResult.arg <= C2_PoolBefore
           /\ lastResult'.arg <= C2_PoolBefore)
             => C2_ExactlyOneApproved]_vars

\* C2 witness: a CheckAndReserve has just been rejected for lack of balance
\* while the reservation of a competing request, which like the rejected one
\* asked for more than half and at most all of the pool, is in place.
C2_Witness ==
    /\ lastResult.op = "reserve"
    /\ lastResult.code = "INSUFFICIENT_BALANCE"
    /\ \E id \in RequestIds :
          /\ RequestExists(id)
          /\ requests[id].status = "preflight_approved"
          /\ requests[id].customer_id = lastResult.customer
          /\ LET pool == Available(lastResult.customer)
                           + requests[id].reserved_grains
             IN  /\ 2 * requests[id].reserved_grains > pool
                 /\ 2 * lastResult.arg > pool
                 /\ lastResult.arg <= pool

\* C3: a CheckAndReserve for a request id whose record exists (in flight, or
\* finalized and not yet expired) is rejected with REQUEST_EXISTS and changes
\* neither balance nor reserved nor any record; an approved call leaves a
\* record behind, so at most one call per record lifetime is approved.
C3_UniqueApproval ==
    [][ReserveStep =>
          /\ RequestExists(lastResult'.id) =>
                /\ lastResult'.ok = 0
                /\ lastResult'.code = "REQUEST_EXISTS"
                /\ UNCHANGED <<balance, reserved, requests>>
          /\ lastResult'.ok = 1 =>
                /\ ~RequestExists(lastResult'.id)
                /\ requests'[lastResult'.id] # NoRecord]_vars

\* C3 witness: a CheckAndReserve for the id of a retained finalized record
\* was rejected with REQUEST_EXISTS.
C3_Witness ==
    /\ lastResult.op = "reserve"
    /\ lastResult.code = "REQUEST_EXISTS"
    /\ requests[lastResult.id].status \in FinalStatuses

\* C4: a Finalize of a request whose record is in a terminal status
\* (completed, killed, failed, timeout) returns {success, refund 0, current
\* balance} and leaves balance, reserved and the record unchanged.
C4_FinalizeIdempotent ==
    [][(/\ FinalizeStep
        /\ requests[lastResult'.id].status \in FinalStatuses) =>
          /\ lastResult'.ok = 1
          /\ lastResult'.val = 0
          /\ lastResult'.bal = balance[lastResult'.customer]
          /\ UNCHANGED <<balance, reserved, requests>>]_vars

C6_Conservation ==
    [][(/\ FinalizeStep
        /\ NeverFinalized(lastResult'.id)
        /\ requests[lastResult'.id].customer_id = lastResult'.customer) =>
          LET c == lastResult'.customer
              id == lastResult'.id
              actual == lastResult'.arg
          IN  IF balance[c] >= actual - requests[id].consumed_grains
              THEN balance'[c] =
                      balance[c] + requests[id].consumed_grains - actual
              ELSE /\ balance'[c] = 0
                   /\ lastResult'.val = -balance[c]
                   /\ requests'[id].integrity_issue = "undercharge_shortfall"]_vars

\* C7 as stated: a Deduct whose amount exceeds the balance returns {failed,
\* balance, INSUFFICIENT_BALANCE}, a Deduct for an id without a record
\* returns {failed, balance, REQUEST_NOT_FOUND}, and both leave balance,
\* reserved and every record unchanged.
C7_AsStated ==
    [][DeductStep =>
          /\ lastResult'.arg > balance[lastResult'.customer] =>
                /\ lastResult'.ok = 0
                /\ lastResult'.val = balance[lastResult'.customer]
                /\ lastResult'.code = "INSUFFICIENT_BALANCE"
                /\ UNCHANGED <<balance, reserved, requests>>
          /\ ~RequestExists(lastResult'.id) =>
                /\ lastResult'.ok = 0
                /\ lastResult'.val = balance[lastResult'.customer]
                /\ lastResult'.code = "REQUEST_NOT_FOUND"
                /\ UNCHANGED <<balance, reserved, requests>>]_vars

\* C7 amended: a Deduct for an id that has a record and whose amount exceeds
\* the balance returns {failed, balance, INSUFFICIENT_BALANCE}, a Deduct for
\* an id without a record returns {failed, balance, REQUEST_NOT_FOUND}, and
\* both leave balance, reserved and every record unchanged.
C7_KillSwitch ==
    [][DeductStep =>
          /\ (/\ RequestExists(lastResult'.id)
              /\ lastResult'.arg > balance[lastResult'.customer]) =>
                /\ lastResult'.ok = 0
                /\ lastResult'.val = balance[lastResult'.customer]
                /\ lastResult'.code = "INSUFFICIENT_BALANCE"
                /\ UNCHANGED <<balance, reserved, requests>>
          /\ ~RequestExists(lastResult'.id) =>
                /\ lastResult'.ok = 0
                /\ lastResult'.val = balance[lastResult'.customer]
                /\ lastResult'.code = "REQUEST_NOT_FOUND"
                /\ UNCHANGED <<balance, reserved, requests>>]_vars

\* C7 witness: a mid-stream Deduct was refused for lack of balance after
\* earlier deductions of the same request had gone through.
C7_Witness ==
    /\ lastResult.op = "deduct"
    /\ lastResult.ok = 0
    /\ lastResult.code = "INSUFFICIENT_BALANCE"
    /\ lastResult.arg > balance[lastResult.customer]
    /\ requests[lastResult.id].status = "streaming"
    /\ requests[lastResult.id].finalized_at = 0
    /\ requests[lastResult.id].consumed_grains > 0

\* C8: in every reachable state reserved(customer) equals the sum of
\* reserved_grains over the customer's request records that are not in a
\* terminal status.
C8_ReservedIsInFlightSum ==
    \A c \in Customers : reserved[c] = InFlightReserved(c)

C10_TerminalIsFinal ==
    [][(/\ ReserveStep \/ DeductStep \/ FinalizeStep
        /\ requests[lastResult'.id].status \in FinalStatuses) =>
          LET id == lastResult'.id
          IN  /\ requests'[id].status = requests[id].status
              /\ requests'[id].consumed_grains = requests[id].consumed_grains
              /\ UNCHANGED <<balance, reserved>>]_vars

(* ------------------------ durable store and syncer --------------------- *)

RECURSIVE RowSum(_, _, _)
\* sum of amount_grains over the rows of customer c in txs, credits only
\* when creditsOnly
RowSum(txs, c, creditsOnly) ==
    IF txs = <<>> THEN 0
    ELSE LET t == Head(txs)
             counts == /\ t.customer_id = c
                       /\ (creditsOnly => t.amount_grains > 0)
         IN  (IF counts THEN t.amount_grains ELSE 0)
                + RowSum(Tail(txs), c, creditsOnly)

\* sum of the customer's transaction amounts (verify_balance_integrity)
TransactionsSum(c) == RowSum(pgTransactions, c, FALSE)

\* grains credited to the customer: its positive transactions
Credited(c) == RowSum(pgTransactions, c, TRUE)

\* the balance the ledger reads: GET customer:balance:{c} or '0'
HotBalance(c) == IF balanceKey(c) \in keys THEN balance[c] ELSE 0

\* the step is the GetBalance call whose customer lastResult' names
GetStep ==
    /\ lastResult'.op = "get_balance"
    /\ GetBalance(lastResult'.customer)

\* C11: after InitializeRedis has completed, for every customer the balance
\* the ledger reads from customer:balance:{c} equals the durable balance.
C11_BootstrapConvergence ==
    lastResult.op = "initialize_redis" =>
        \A c \in Customers : HotBalance(c) = pgBalance[c]

\* C12: once the write queue has drained with no write that appends a
\* transaction dropped or failed and a syncer routine has run, the durable
\* balance of every customer equals the sum of its transaction amounts.
\* (Preflight writes are left out of the condition: none ever succeeds.)
C12_DurableConsistency ==
    (/\ writeQueue = <<>>
     /\ "finalization" \notin audit.lost
     /\ lastResult.op \in SyncOps) =>
        \A c \in Customers : pgBalance[c] = TransactionsSum(c)

\* C13: the hot balance of a customer never exceeds its credited grains
\* minus the actual cost of its finalized requests and the consumed grains
\* of its in-flight requests.
C13_StaleOnlySafe ==
    \A c \in Customers :
        HotBalance(c) <= Credited(c) - audit.charged[c] - InFlightConsumed(c)

\* C14: a Deduct for an approved in-flight request that keeps the request's
\* consumed grains within its reserved amount R succeeds, whatever calls of
\* other requests of the customer ran before it.
C14_ReservationLocked ==
    [][(/\ DeductStep
        /\ NeverFinalized(lastResult'.id)
        /\ requests[lastResult'.id].consumed_grains + lastResult'.arg
              <= requests[lastResult'.id].reserved_grains)
          => lastResult'.ok = 1]_vars

\* C15: a Finalize with actual cost 0 that directly follows the approved
\* CheckAndReserve of its request (reserved amount R, no Deduct in between)
\* returns refund 0, leaves balance as it was and lowers reserved by R, back
\* to its value before the CheckAndReserve.
C15_RoundTripWithoutUsage ==
    [][(/\ lastResult.op = "reserve"
        /\ lastResult.ok = 1
        /\ requests[lastResult.id].status = "preflight_approved"
        /\ FinalizeStep
        /\ lastResult'.id = lastResult.id
        /\ lastResult'.arg = 0) =>
          (/\ lastResult'.ok = 1
           /\ lastResult'.val = 0
           /\ balance' = balance
           /\ reserved'[lastResult.customer] =
                 reserved[lastResult.customer] - lastResult.arg
           /\ requests'[lastResult.id].integrity_issue = "")]_vars

\* C15 witness: a request finalized with actual cost 0 and nothing consumed
\* right after its reservation; the customer's reserved counter is back at 0.
C15_Witness ==
    /\ lastResult.op = "finalize"
    /\ lastResult.ok = 1
    /\ lastResult.arg = 0
    /\ lastResult.val = 0
    /\ requests[lastResult.id].status \in FinalStatuses
    /\ requests[lastResult.id].consumed_grains = 0
    /\ requests[lastResult.id].reserved_grains > 0
    /\ requests[lastResult.id].integrity_issue = ""
    /\ reserved[lastResult.customer] = 0

\* C16: over the life of one request - approved CheckAndReserve of R,
\* successful Deducts summing to R, Finalize with actual cost R - the
\* reservation leaves the balance alone and raises reserved by R, every
\* Deduct moves its amount from the balance to consumed_grains, and the
\* Finalize returns refund 0, leaves the balance alone and lowers reserved
\* by R: the balance ends R below and reserved at its value before the
\* CheckAndReserve.
C16_RoundTripExactUsage ==
    [][LET id == lastResult'.id
           c == lastResult'.customer
       IN  /\ (ReserveStep /\ lastResult'.ok = 1) =>
                 /\ balance' = balance
                 /\ reserved'[c] = reserved[c] + lastResult'.arg
                 /\ requests'[id].consumed_grains = 0
           /\ (DeductStep /\ lastResult'.ok = 1 /\ NeverFinalized(id)) =>
                 /\ balance'[c] + requests'[id].consumed_grains
                       = balance[c] + requests[id].consumed_grains
                 /\ requests'[id].consumed_grains
                       = requests[id].consumed_grains + lastResult'.arg
                 /\ reserved' = reserved
           /\ (/\ FinalizeStep
               /\ NeverFinalized(id)
               /\ requests[id].consumed_grains = requests[id].reserved_grains
               /\ lastResult'.arg = requests[id].reserved_grains) =>
                 /\ lastResult'.val = 0
                 /\ balance' = balance
                 /\ reserved'[c] = reserved[c] - requests[id].reserved_grains
      ]_vars

\* C16 witness: a request finalized at an actual cost equal to both its
\* reservation and its streamed consumption, refund 0.
C16_Witness ==
    /\ lastResult.op = "finalize"
    /\ lastResult.ok = 1
    /\ lastResult.val = 0
    /\ lastResult.arg > 0
    /\ requests[lastResult.id].status \in FinalStatuses
    /\ requests[lastResult.id].consumed_grains = lastResult.arg
    /\ requests[lastResult.id].reserved_grains = lastResult.arg
    /\ requests[lastResult.id].integrity_issue = ""

\* the undercharge scenario: the whole balance R was reserved and then
\* deducted by one request (balance 0, consumed = reserved = R, nothing else
\* reserved), and its first Finalize reports an actual cost above R
C17_Scenario ==
    LET id == lastResult'.id
        c == lastResult'.customer
    IN  /\ FinalizeStep
        /\ NeverFinalized(id)
        /\ requests[id].reserved_grains > 0
        /\ requests[id].consumed_grains = requests[id].reserved_grains
        /\ balance[c] = 0
        /\ reserved[c] = requests[id].reserved_grains
        /\ lastResult'.arg > requests[id].consumed_grains

\* C17 as stated: in the undercharge scenario (balance R = 5 000 reserved
\* and deducted, actual cost 6 000) the Finalize leaves balance 0, returns
\* refund -R and sets integrity_issue = undercharge_shortfall.
C17_AsStated ==
    [][C17_Scenario =>
          /\ balance'[lastResult'.customer] = 0
          /\ lastResult'.val = -requests[lastResult'.id].reserved_grains
          /\ requests'[lastResult'.id].integrity_issue
                = "undercharge_shortfall"]_vars

\* C17 amended: in the undercharge scenario the Finalize leaves balance 0,
\* returns refund 0 (minus the balance it found, which is 0) and sets
\* integrity_issue = undercharge_shortfall.
C17_UnderchargeShortfall ==
    [][C17_Scenario =>
          /\ balance'[lastResult'.customer] = 0
          /\ lastResult'.val = 0
          /\ requests'[lastResult'.id].integrity_issue
                = "undercharge_shortfall"]_vars

\* C17 witness: the scenario has run: the request is finalized at an actual
\* cost above its consumption, which equals its reservation, with balance 0
\* and the shortfall flag.
C17_Witness ==
    /\ lastResult.op = "finalize"
    /\ lastResult.ok = 1
    /\ lastResult.val = 0
    /\ requests[lastResult.id].status \in FinalStatuses
    /\ requests[lastResult.id].consumed_grains
          = requests[lastResult.id].reserved_grains
    /\ lastResult.arg > requests[lastResult.id].consumed_grains
    /\ requests[lastResult.id].consumed_grains > 0
    /\ balance[lastResult.customer] = 0
    /\ requests[lastResult.id].integrity_issue = "undercharge_shortfall"

\* C18: a Finalize for a request id without a record returns the failure
\* result REQUEST_NOT_FOUND to its caller, without a fault of the ledger
\* method, and leaves balance, reserved and the request records unchanged.
C18_FinalizeNotFound ==
    [][(FinalizeStep /\ ~RequestExists(lastResult'.id)) =>
          /\ lastResult'.fault = ""
          /\ lastResult'.ok = 0
          /\ lastResult'.code = "REQUEST_NOT_FOUND"
          /\ UNCHANGED <<balance, reserved, requests>>]_vars

\* C19: GetBalance changes nothing in the hot store and returns balance,
\* reserved and available = balance - reserved, a missing key read as 0.
C19_GetBalance ==
    [][GetStep =>
          LET c == lastResult'.customer
          IN  /\ UNCHANGED <<balance, reserved, requests, keys, bootBalance>>
              /\ lastResult'.bal = HotBalance(c)
              /\ lastResult'.res =
                    (IF reservedKey(c) \in keys THEN reserved[c] ELSE 0)
              /\ lastResult'.val = lastResult'.bal - lastResult'.res]_vars

\* C19 witness: GetBalance has answered for a customer whose balance key
\* does not exist while its durable balance is positive.
C19_Witness ==
    /\ lastResult.op = "get_balance"
    /\ balanceKey(lastResult.customer) \notin keys
    /\ pgBalance[lastResult.customer] > 0
    /\ lastResult.bal = 0
    /\ lastResult.val = -lastResult.res

AttemptStep(w) ==
    /\ workers[w].state = "busy"
    /\ workers'[w] # workers[w]

\* the attempt of this step succeeded: only a finalization write can, and
\* it shows as a new row of the transactions table
AttemptWritten == pgTransactions' # pgTransactions

\* once Close has returned nothing is queued and no worker runs or holds
\* an op
C21_Drained ==
    shutdown = "returned" =>
        /\ writeQueue = <<>>
        /\ \A w \in Workers : /\ workers[w].state = "stopped"
                               /\ workers[w].op = NoOp

\* a worker lets go of the op it took only after a successful attempt or
\* after attempt number maxRetries
C21_Processed ==
    \A w \in Workers :
        (AttemptStep(w) /\ workers'[w].state # "busy") =>
            AttemptWritten \/ workers[w].attempt = maxRetries

\* C21: when Close is called with no ledger call running, every write op
\* accepted into the queue is taken by a worker and processed to success or
\* retry exhaustion before Close returns, all workers have stopped by then,
\* and Close eventually returns (every attempt terminating).
C21_ShutdownDrain ==
    /\ []C21_Drained
    /\ [][C21_Processed]_vars
    /\ (shutdown = "closing") ~> (shutdown = "returned")

\* C21 witness: Close has returned after the pool wrote one finalization
\* and gave up on another op.
C21_Witness ==
    /\ shutdown = "returned"
    /\ \E w \in Workers : workers[w].gaveUp
    /\ \E i \in 1..Len(pgTransactions) :
          pgTransactions[i].transaction_type = "ai_usage"

\* C30: a worker makes at most maxRetries = 5 attempts on an op: after a
\* successful attempt it makes no further one, after a failed attempt
\* before the fifth it tries the same op again, after the fifth failed
\* attempt it gives the op up and waits for the next; and no worker stops
\* while the queue is open.
C30_RetryBound ==
    /\ [](\A w \in Workers :
            /\ workers[w].attempt <= maxRetries
            /\ workers[w].state = "stopped" => shutdown # "running")
    /\ [][\A w \in Workers : AttemptStep(w) =>
             IF AttemptWritten
             THEN /\ workers'[w].state = "idle"
                  /\ workers'[w].gaveUp = workers[w].gaveUp
             ELSE IF workers[w].attempt < maxRetries
             THEN workers'[w] =
                     [workers[w] EXCEPT !.attempt = workers[w].attempt + 1]
             ELSE /\ workers'[w].state = "idle"
                  /\ workers'[w].gaveUp]_vars

\* C30 witness: a worker that gave up on an op after its fifth attempt is
\* at work on a later op.
C30_Witness ==
    \E w \in Workers :
        /\ workers[w].gaveUp
        /\ workers[w].state = "busy"
        /\ workers[w].op.opType = "finalization"

(* --------------------- finalization in the durable store --------------- *)

\* positions of the ai_usage rows that refer to request id
UsageRows(id) ==
    {i \in 1..Len(pgTransactions) :
        /\ pgTransactions[i].transaction_type = "ai_usage"
        /\ pgTransactions[i].reference_id = id}

\* C22: however many times Finalize is called for a request id, the
\* transactions table holds at most one ai_usage row for it: a Finalize
\* that finds the request terminal or missing causes no durable write.
C22_AtMostOneUsageRow ==
    \A id \in RequestIds : Cardinality(UsageRows(id)) <= 1

(* ----------------------------- RPC validation -------------------------- *)

\* C23: a CheckBalance, DeductTokens or FinalizeRequest request with a
\* missing customer id, and one whose reserved amount or deducted grain
\* amount is not positive, is rejected with INVALID_ARGUMENT and leaves
\* balance, reserved and the request records unchanged.
C23_InvalidArgument ==
    [][/\ \A c \in RpcCustomers, id \in RpcRequestIds,
            estimated \in -1..MaxGrains, tenths \in BufferTenths :
            (/\ CheckBalance(c, id, estimated, tenths)
             /\ (c = "" \/ reservedGrains(estimated, tenths) <= 0)) =>
               /\ lastResult'.code = "INVALID_ARGUMENT"
               /\ UNCHANGED <<balance, reserved, requests>>
       /\ \A c \in RpcCustomers, tc \in Customers, tokens \in 0..2,
            perMillion \in PricesPerMillion :
            (/\ DeductTokens(c, "r1", generateRequestToken("r1", tc),
                             tokens, perMillion)
             /\ (c = "" \/ grainCost(tokens, perMillion) <= 0)) =>
               /\ lastResult'.code = "INVALID_ARGUMENT"
               /\ UNCHANGED <<balance, reserved, requests>>
       /\ \A c \in RpcCustomers, id \in RpcRequestIds,
            status \in TwoStatuses, actual \in -1..MaxCost :
            (ServiceFinalizeRequest(c, id, status, actual) /\ c = "") =>
               /\ lastResult'.code = "INVALID_ARGUMENT"
               /\ UNCHANGED <<balance, reserved, requests>>
      ]_vars

(* ------------------------- effects of single calls --------------------- *)

\* C24: an approved CheckAndReserve(customer, id, R) raises reserved by
\* exactly R, leaves the balance alone, creates the record of id with
\* reserved_grains = R, consumed_grains = 0 and status preflight_approved,
\* leaves every other record alone, and returns the remaining available
\* balance - previous reserved - R, which is >= 0.
C24_ApprovedReservation ==
    [][LET id == lastResult'.id
           c == lastResult'.customer
           R == lastResult'.arg
       IN  (ReserveStep /\ lastResult'.ok = 1) =>
              /\ reserved' = [reserved EXCEPT ![c] = reserved[c] + R]
              /\ balance' = balance
              /\ ~RequestExists(id)
              /\ requests'[id].reserved_grains = R
              /\ requests'[id].consumed_grains = 0
              /\ requests'[id].status = "preflight_approved"
              /\ \A other \in RequestIds \ {id} :
                    requests'[other] = requests[other]
              /\ lastResult'.val = balance[c] - reserved[c] - R
              /\ lastResult'.val >= 0]_vars

\* C24 witness: a reservation was approved next to another request's
\* reservation and took exactly what was left.
C24_Witness ==
    /\ lastResult.op = "reserve"
    /\ lastResult.ok = 1
    /\ lastResult.val = 0
    /\ requests[lastResult.id].status = "preflight_approved"
    /\ requests[lastResult.id].reserved_grains = lastResult.arg
    /\ reserved[lastResult.customer] > lastResult.arg

\* C25: a rejected CheckAndReserve leaves balance, reserved, every request
\* record, the existing keys and the write queue unchanged, gives
\* INSUFFICIENT_BALANCE or REQUEST_EXISTS as the reason and reports the
\* current balance; nothing is reserved in part.
C25_RejectedReservation ==
    [][(ReserveStep /\ lastResult'.ok = 0) =>
          /\ UNCHANGED <<balance, reserved, requests, keys, writeQueue>>
          /\ lastResult'.code \in {"INSUFFICIENT_BALANCE", "REQUEST_EXISTS"}
          /\ lastResult'.val = balance[lastResult'.customer]]_vars

\* C25 witness: a request for more than the available grains was rejected
\* although part of it would have fitted; no record exists for it.
C25_Witness ==
    /\ lastResult.op = "reserve"
    /\ lastResult.ok = 0
    /\ lastResult.code = "INSUFFICIENT_BALANCE"
    /\ ~RequestExists(lastResult.id)
    /\ Available(lastResult.customer) > 0
    /\ Available(lastResult.customer) < lastResult.arg
    /\ reserved[lastResult.customer] > 0

\* C26: a successful Deduct(customer, id, g) lowers the balance by exactly
\* g, raises the request's consumed_grains by exactly g, sets its status to
\* streaming, returns the new balance and leaves reserved and every other
\* request record unchanged.
C26_SuccessfulDeduct ==
    [][LET id == lastResult'.id
           c == lastResult'.customer
           g == lastResult'.arg
       IN  (DeductStep /\ lastResult'.ok = 1) =>
              /\ balance' = [balance EXCEPT ![c] = balance[c] - g]
              /\ requests' = [requests EXCEPT
                    ![id].consumed_grains = requests[id].consumed_grains + g,
                    ![id].status = "streaming"]
              /\ lastResult'.val = balance'[c]
              /\ reserved' = reserved]_vars

\* C26 witness: a second Deduct of a request has succeeded while another
\* request of the customer is in flight.
C26_Witness ==
    /\ lastResult.op = "deduct"
    /\ lastResult.ok = 1
    /\ lastResult.arg > 0
    /\ requests[lastResult.id].status = "streaming"
    /\ requests[lastResult.id].consumed_grains > lastResult.arg
    /\ \E other \in RequestIds \ {lastResult.id} :
          /\ RequestExists(other)
          /\ requests[other].status = "preflight_approved"

\* C27: the first Finalize of a request with consumption S and actual cost
\* A, the balance covering A - S when A > S, returns refund = S - A and a
\* final balance that is the stored balance after the call, i.e. the
\* balance before it plus the refund.
C27_RefundAndFinalBalance ==
    [][LET id == lastResult'.id
           c == lastResult'.customer
           S == requests[id].consumed_grains
           A == lastResult'.arg
       IN  (FinalizeStep /\ NeverFinalized(id) /\ balance[c] >= A - S) =>
              /\ lastResult'.ok = 1
              /\ lastResult'.val = S - A
              /\ lastResult'.bal = balance'[c]
              /\ balance'[c] = balance[c] + lastResult'.val]_vars

\* C27 witness: a first Finalize has refunded grains streamed beyond the
\* actual cost.
C27_Witness ==
    /\ lastResult.op = "finalize"
    /\ lastResult.ok = 1
    /\ lastResult.val > 0
    /\ lastResult.val =
          requests[lastResult.id].consumed_grains - lastResult.arg
    /\ lastResult.bal = balance[lastResult.customer]
    /\ requests[lastResult.id].integrity_issue = ""

\* C28: no Deduct returns BALANCE_NEGATIVE, whatever the balance and the
\* amount: a Deduct the balance cannot cover returns INSUFFICIENT_BALANCE
\* (or REQUEST_NOT_FOUND).
C28_NoBalanceNegative ==
    [][DeductStep =>
          /\ lastResult'.code # "BALANCE_NEGATIVE"
          /\ balance[lastResult'.customer] - lastResult'.arg < 0 =>
                lastResult'.code
                   \in {"INSUFFICIENT_BALANCE", "REQUEST_NOT_FOUND"}]_vars

\* C28 witness: a Deduct of an existing request that would have taken the
\* balance below 0 was refused with INSUFFICIENT_BALANCE.
C28_Witness ==
    /\ lastResult.op = "deduct"
    /\ lastResult.ok = 0
    /\ lastResult.code = "INSUFFICIENT_BALANCE"
    /\ RequestExists(lastResult.id)
    /\ balance[lastResult.customer] - lastResult.arg < 0

(* ------------------------ retry after a lost response ------------------ *)

\* the previous call was a Finalize whose script finalized the request and
\* whose response was lost, and this step is the same Finalize called again
RetryStep ==
    /\ lastResult.op = "finalize"
    /\ lastResult.fault = "deadline"
    /\ RequestExists(lastResult.id)
    /\ requests[lastResult.id].status \in FinalStatuses
    /\ FinalizeStep
    /\ lastResult'.customer = lastResult.customer
    /\ lastResult'.id = lastResult.id
    /\ lastResult'.arg = lastResult.arg
    /\ requests'[lastResult.id].status = requests[lastResult.id].status

\* C29: a Finalize retried after its response was lost returns success,
\* leaves the hot store as the first call left it, and is the call that
\* queues the one finalization write of the two.
C29_SafeRetry ==
    [][RetryStep =>
          /\ lastResult'.ok = 1
          /\ lastResult'.fault = ""
          /\ UNCHANGED <<balance, reserved, requests>>
          /\ writeQueue' =
                Append(writeQueue,
                       writeOp("finalization", lastResult.customer,
                               lastResult.id, lastResult.arg))]_vars

(* --------------------------- the requests table ------------------------ *)

\* the preflight write of request id is in the queue
PreflightQueued(id) ==
    \E i \in 1..Len(writeQueue) :
       /\ writeQueue[i].opType = "preflight"
       /\ writeQueue[i].request_id = id

\* C31: once the preflight write of an approved CheckAndReserve is in the
\* queue, and the durable store answers, the requests table eventually
\* holds the row of that request id with status preflight_approved.
C31_PreflightRow ==
    \A id \in RequestIds :
       PreflightQueued(id) ~> (pgRequests[id] = "preflight_approved")

(* ------------------------- what the syncer writes ---------------------- *)

\* the step is a periodic drift correction or a SyncCustomer call
SyncStep ==
    \/ /\ lastResult'.op = "periodic_sync"
       /\ \E recent \in SUBSET Customers :
             syncRecentlyUpdatedCustomers(recent)
    \/ /\ lastResult'.op = "sync_customer"
       /\ \E c \in Customers : SyncCustomer(c)

\* C32: the periodic drift correction and SyncCustomer write balance keys
\* only: reserved of every customer, every request record, the bootstrap
\* keys and the write queue are as before, and a key they create is a
\* balance key.
C32_SyncWritesBalanceOnly ==
    [][SyncStep =>
          /\ UNCHANGED <<reserved, requests, bootBalance, writeQueue>>
          /\ keys' \ keys \subseteq {balanceKey(c) : c \in Customers}
          /\ \A c \in Customers : balance'[c] \in {balance[c], pgBalance[c]}
      ]_vars

\* C32 witness: a sync has overwritten the balance of a customer whose
\* request is streaming; the reservation of the request is still counted.
C32_Witness ==
    /\ lastResult.op \in {"periodic_sync", "sync_customer"}
    /\ lastResult.val = 1
    /\ \E c \in Customers, id \in RequestIds :
          /\ id \in InFlight(c)
          /\ requests[id].consumed_grains > 0
          /\ requests[id].reserved_grains > 0
          /\ reserved[c] = InFlightReserved(c)
          /\ balance[c] = pgBalance[c]

\* C33: after VerifyIntegrity over a sample, run alone, every sampled
\* customer's balance key exists and holds the durable balance, and the
\* count returned is the number of sampled customers whose balance key was
\* missing or held another value before.
C33_VerifyRepairs ==
    [][\A sample \in SUBSET Customers :
          (lastResult'.op = "verify_integrity" /\ VerifyIntegrity(sample)) =>
             /\ \A c \in sample :
                   /\ balanceKey(c) \in keys'
                   /\ balance'[c] = pgBalance[c]
             /\ lastResult'.val =
                   Cardinality({c \in sample :
                                   \/ balanceKey(c) \notin keys
                                   \/ balance[c] # pgBalance[c]})]_vars

(* ------------------------------ credentials ---------------------------- *)

\* the call was turned away: it failed and the hot store and the queue are
\* as before
Rejected ==
    /\ lastResult'.ok = 0
    /\ UNCHANGED <<balance, reserved, requests, keys, writeQueue>>

\* C34: a CheckBalance without a valid API key, a DeductTokens with a
\* token that was not issued for its request id and customer id, and a
\* FinalizeRequest with neither a valid API key nor such a token are
\* turned away without touching the hot store; the DeductTokens with the
\* forged token ends with PERMISSION_DENIED before the ledger is called.
C34_Authenticated ==
    [][/\ \A c \in Customers, estimated \in 1..MaxGrains :
            AuthCheckBalance(FALSE, c, "r1", estimated, 10) => Rejected
       /\ \A c \in Customers, token \in RpcTokens, tokens \in 1..2 :
            (/\ DeductTokens(c, "r1", token, tokens, 1500000)
             /\ ~validateRequestToken(token, "r1", c)) =>
               Rejected /\ lastResult'.code = "PERMISSION_DENIED"
       /\ \A token \in RpcTokens, c \in Customers,
            status \in TwoStatuses, actual \in 0..MaxCost :
            (/\ AuthFinalizeRequest(FALSE, token, c, "r1", status, actual)
             /\ ~validateRequestToken(token, "r1", c)) => Rejected
      ]_vars

(* ---------------------------- other customers -------------------------- *)

\* the call names a request whose record belongs to another customer
ForeignRequest ==
    /\ RequestExists(lastResult'.id)
    /\ requests[lastResult'.id].customer_id # lastResult'.customer

\* C35: a Deduct or Finalize called with one customer's id and the id of a
\* request reserved for another customer changes no balance, no reserved
\* counter and no request record.
C35_CustomerIsolation ==
    [][((DeductStep \/ FinalizeStep) /\ ForeignRequest) =>
          UNCHANGED <<balance, reserved, requests>>]_vars

(* --------------------------- available amount ------------------------- *)

\* C36: under any interleaving of CheckAndReserve, Deduct and Finalize with
\* positive amounts, balance - reserved of every customer is >= 0 in every
\* reachable state, which is the available amount GetBalance computes.
C36_AvailableNeverNegative ==
    \A c \in Customers :
       /\ Available(c) >= 0
       /\ availableBalance(HotBalance(c), reserved[c]) >= 0

(* ------------------------- GetBalance's snapshot ----------------------- *)

\* C37: the (balance, reserved) pair a GetBalance returns is a pair the
\* hot store held at one instant, whatever scripts of the same customer
\* ran between its two pipelined reads.
C37_ConsistentSnapshot ==
    lastResult.op = "get_balance" =>
       <<lastResult.customer, lastResult.bal, lastResult.res>> \in audit.held

(* ------------------------- order of durable writes --------------------- *)

\* C38: the finalization write of a request id is applied to the durable
\* store after its preflight write, so once the ai_usage row of a request
\* is written its row of the requests table exists and carries the
\* terminal status.
C38_PreflightBeforeFinalization ==
    \A id \in RequestIds :
       UsageRows(id) # {} => pgRequests[id] = "terminal"

(* ---------------------- ledger calls next to Close --------------------- *)

\* C39: no CheckAndReserve or Finalize running next to Close sends a write
\* on the queue after Close has closed it.
C39_NoSendOnClosedQueue ==
    lastResult.fault # "send on closed channel"

(* ----------------------- bootstrap next to requests -------------------- *)

\* the step is a run of the bootstrap routine
BootstrapStep ==
    /\ lastResult'.op = "initialize_redis"
    /\ InitializeRedis

\* C40: a run of InitializeRedis while requests are in flight leaves
\* reserved of every customer equal to the sum of reserved_grains of the
\* customer's in-flight requests, and the first Finalize of a request
\* after the run records no reservation_underflow.
C40_BootstrapKeepsReservations ==
    [][/\ (/\ BootstrapStep
           /\ \A c \in Customers : reserved[c] = InFlightReserved(c)) =>
             \A c \in Customers : reserved'[c] = InFlightReserved(c)
       /\ (/\ lastResult.op = "initialize_redis"
           /\ FinalizeStep
           /\ NeverFinalized(lastResult'.id)) =>
             requests'[lastResult'.id].integrity_issue
                # "reservation_underflow"]_vars

=============================================================================
